---- MODULE Spec2Model ----
(***************************************************************************)
(* State-machine model of scripts/gui_controller.py (JTAGTestController):  *)
(* the Tk main loop (run_tests, stop_tests, after-callbacks), the worker   *)
(* threads started by run_tests (_run_tests_thread / _run_command) and the *)
(* child processes they launch.                                            *)
(*                                                                         *)
(* Threads.  Handlers of the Tk main loop run one at a time.  A worker     *)
(* thread runs concurrently with them; every Tk call a worker makes (a     *)
(* widget's .get(), each config and insert of log_message, root.after) is  *)
(* executed by the main loop on its own, between two handlers, so such a   *)
(* step is enabled only while the main loop is not inside a handler        *)
(* (main_pc = "loop", no timer pass going on), and handlers run between    *)
(* the calls of one log_message.  The callbacks registered with            *)
(* root.after(0, ...) that are due when the timer handler begins run in    *)
(* one pass of it, back to back.  The other worker steps (chdir, Popen,    *)
(* the assignments to current_process, wait) interleave freely, also with  *)
(* the two attribute reads of stop_tests and with the poll and the kill of *)
(* terminate().                                                            *)
(*                                                                         *)
(* Results.  update_results, clear_results and export_results read the     *)
(* results directory, which the build tool and the user change behind the  *)
(* program's back, also between two reads of one update_results: fs is the *)
(* directory as it is on disk, summary what the Results tab shows,         *)
(* export_doc the last exported document.                                  *)
(***************************************************************************)
EXTENDS Integers, Sequences, FiniteSets, TLC

\* ---------------------------------------------------------------- bounds
\* Worker threads started, stop_tests calls made, and lines written by all
\* children together, at most.
MaxRuns == 2
MaxStops == 2
MaxLines == 2
\* clear_results calls are made only while fewer than MaxScans scans were made.
MaxScans == 2
\* Changes of the results directory made while the program runs, at most.
MaxChanges == 3

Runs == 1..MaxRuns
\* A run launches at most two commands: the mode's build command, the report.
Cmds == {1, 2}

\* Python's None, for current_process and for Popen.returncode (which holds
\* <<code>> once the process has been waited on).
NoProcess == <<>>
NoCode == <<>>

\* str(process.returncode) inside the f-string of _run_command.
CodeText(rc) ==
  CASE rc = <<0>> -> "0"
    [] rc = <<2>> -> "2"
    [] rc = <<-15>> -> "-15"
    [] OTHER -> "None"

\* str(e) of the exceptions that reach the except clause of _run_tests_thread:
\* the one os.chdir raises, the one Popen raises, the decoder's
\* UnicodeDecodeError, and the one _run_command raises for a non-zero
\* returncode; <<>> while the worker has raised none.
NoException == <<>>
ChdirError == <<"chdir error">>
LaunchError == <<"launch error">>
DecodeError == <<"decode error">>
CommandFailedError(rc) == <<"Command failed with return code ", CodeText(rc)>>

\* ------------------------------------------------------------ pure helpers
\* Characters of an output line; " " and "\n" are the whitespace ones.
IsSpace(ch) == ch \in {" ", "\n"}

RECURSIVE LStrip(_)
LStrip(s) == IF s # <<>> /\ IsSpace(Head(s)) THEN LStrip(Tail(s)) ELSE s

RECURSIVE RStrip(_)
RStrip(s) ==
  IF s # <<>> /\ IsSpace(s[Len(s)]) THEN RStrip(SubSeq(s, 1, Len(s) - 1)) ELSE s

\* str.strip(): leading and trailing whitespace (the newline included) removed.
Strip(s) == RStrip(LStrip(s))

\* The lines a child may write (each ends with a newline, written "\n"):
\* an empty line, a line of text, and a line holding a byte that is not valid
\* in the pipe's text encoding (written "<ff>").
LineChoices == { <<"\n">>, <<" ", "a", "\n">>, <<"<ff>", "\n">> }

\* The text decoder of process.stdout (universal_newlines=True, errors strict)
\* raises UnicodeDecodeError on such a byte.
Undecodable(line) == \E k \in 1..Len(line) : line[k] = "<ff>"

\* The values of the test-type combobox and of the testbench combobox.
TestTypes ==
  { "All Tests", "Simulation Only", "Synthesis Only", "Coverage Only",
    "Parallel Build", "Fast Build", "Individual Testbench" }

Testbenches ==
  { "tb_jtag_controller", "tb_ieee1500_wrapper", "tb_ieee1687_network",
    "tb_boundary_scan_chain", "tb_loopback_module", "tb_top_module" }

\* Mutant of BuildCommand: every test type runs the whole suite.
BuildCommandAlwaysAll(tt, tb) == <<"make", <<"all">>>>

\* The if/elif chain of _run_tests_thread: the command of a test type, or
\* <<>> when no branch matches (the combobox accepts typed text).
\* A command is <<tool, target>>; a target is written as the pieces of its
\* text, so that f"sim-{testbench}" is <<"sim-", testbench>>.
BuildCommand(tt, tb) ==
  CASE tt = "All Tests" -> <<"make", <<"all">>>>
    [] tt = "Simulation Only" -> <<"make", <<"sim">>>>
    [] tt = "Synthesis Only" -> <<"make", <<"syn">>>>
    [] tt = "Coverage Only" -> <<"make", <<"cov">>>>
    [] tt = "Parallel Build" -> <<"make", <<"parallel-all">>>>
    [] tt = "Fast Build" -> <<"make", <<"fast-build">>>>
    [] tt = "Individual Testbench" -> <<"make", <<"sim-", tb>>>>
    [] OTHER -> <<>>

ReportCommand == <<"make", <<"html-report">>>>

\* What the user can put into the two comboboxes: a listed value, or typed
\* text (the comboboxes are editable), the empty text included.
TypedTestTypes == { "Regression" }
TypedTestbenches == { "", "tb_unknown" }

\* ------------------------------------------------------ results directory
\* A file name is <<stem, suffix>>.  The files the environment may put into
\* results/synthesis and results/coverage.
SynFileNames == { <<"top", "_synth.v">> }
CovFileNames == { <<"cov", ".log">>, <<"cov", ".dat">> }

\* A text is the sequence of its characters.  The marker update_results and
\* export_results look for in a simulation log.
Successful == <<"s", "u", "c", "c", "e", "s", "s", "f", "u", "l">>

\* The word a log of a failed simulation holds instead.
Failed == <<"f", "a", "i", "l", "e", "d">>

\* The text "Simulation " followed by rest.
SimulationText(rest) ==
  <<"S", "i", "m", "u", "l", "a", "t", "i", "o", "n", " ">> \o rest

\* An entry of the logs directory that is itself a directory: it has no text.
IsADirectory == <<"<dir>">>

\* What the environment may put into tb_a.log: "Simulation successful",
\* "Simulation failed", or a byte that is not valid in the encoding
\* read_text() decodes with (written "<ff>", as in LineChoices).
LogTexts == { SimulationText(Successful), SimulationText(Failed), <<"<ff>">> }

\* What it may put at tb_b.log: "Simulation failed", "Simulation
\* unsuccessful", or a directory of that name.
OtherLogTexts ==
  { SimulationText(Failed), SimulationText(<<"u", "n">> \o Successful),
    IsADirectory }

\* The files that may appear in results/simulation/logs.
SimLogChoices ==
  [name : {<<"tb_a", ".log">>}, text : LogTexts]
    \cup [name : {<<"tb_b", ".log">>}, text : OtherLogTexts]

\* A directory that does not exist; a directory is [exists, files], the files
\* in the order the directory lists them.
NoDir == [exists |-> FALSE, files |-> <<>>]
EmptyDir == [exists |-> TRUE, files |-> <<>>]

\* No results directory at all.
NoResults == [root |-> FALSE, sim |-> NoDir, syn |-> NoDir, cov |-> NoDir]

\* Path.glob("*" + suffix): the files of the listing whose name ends so.
Glob(files, suffix) == SelectSeq(files, LAMBDA f : f.name[2] = suffix)

\* Path.stem of a file name.
Stem(name) == name[1]

\* part in text, of two str: part is a run of consecutive characters of text.
Contains(text, part) ==
  \E i \in 1..(Len(text) - Len(part) + 1) :
    SubSeq(text, i, i + Len(part) - 1) = part

\* "PASS" if "successful" in log_file.read_text() else "FAIL".
LogStatus(text) == IF Contains(text, Successful) THEN "PASS" ELSE "FAIL"

\* log_file.read_text() raises: the entry is a directory (IsADirectoryError),
\* or it holds a byte that cannot be decoded (UnicodeDecodeError).
ReadTextRaises(f) ==
  f.text = IsADirectory \/ (\E k \in 1..Len(f.text) : f.text[k] = "<ff>")

\* The {name, status} entries of the logs of a listing, in listing order.
RECURSIVE SimEntries(_)
SimEntries(files) ==
  IF files = <<>> THEN <<>>
  ELSE <<[name |-> Stem(Head(files).name), status |-> LogStatus(Head(files).text)]>>
         \o SimEntries(Tail(files))

\* A summary label that still reads "Not Run"; a label that shows a count n
\* is <<n>>.
NotRun == <<>>

\* The Results tab after create_results_tab: three labels, an empty tree.
InitialSummary ==
  [sim_status |-> NotRun, syn_status |-> NotRun, cov_status |-> NotRun,
   tree |-> <<>>]

\* Mutant of ClearTree: the rows of the earlier scan are kept.
KeepTree(tree) == tree

\* update_results, first loop: every row of the tree is deleted.
ClearTree(tree) == <<>>

\* The results directory a complete build has left.
BuiltResults ==
  [root |-> TRUE,
   sim |-> [exists |-> TRUE,
            files |-> << [name |-> <<"tb_a", ".log">>,
                          text |-> SimulationText(Successful)],
                         [name |-> <<"tb_b", ".log">>,
                          text |-> SimulationText(Failed)] >>],
   syn |-> [exists |-> TRUE,
            files |-> << [name |-> <<"top", "_synth.v">>, text |-> <<>>] >>],
   cov |-> [exists |-> TRUE,
            files |-> << [name |-> <<"cov", ".log">>, text |-> <<>>],
                         [name |-> <<"cov", ".dat">>, text |-> <<>>] >>]]

\* The results directories the program may find when it is started.
StartDirs == {NoResults, BuiltResults}

\* No exported document yet; an exported document d is <<d>>.
NoDocument == <<>>

\* export_results: the document written, as its "project_root" entry and the
\* "simulation" entry of its "results" object; rows is <<>> when that key was
\* not set, else <<the list>>.
ExportDocument(root, rows) ==
  [project_root |-> root,
   has_simulation |-> rows # <<>>,
   simulation |-> IF rows = <<>> THEN <<>> ELSE rows[1]]

\* The directories browse_project_path may set as project root: the one the
\* program starts with, and another one.
ProjectRoots == {"repository", "elsewhere"}

\* Path.glob("*" + suffix) on a directory, its result taken at once.  When the
\* directory is not there the call finds so and lists nothing, or, the
\* directory having gone inside the call, raises FileNotFoundError.
Listed(files) == [ok |-> TRUE, files |-> files]
GlobError == [ok |-> FALSE, files |-> <<>>]
GlobOutcomes(dir, suffix) ==
  IF dir.exists THEN {Listed(Glob(dir.files, suffix))}
  ELSE {Listed(<<>>), GlobError}

\* ------------------------------------------------------------------ state
VARIABLES
  test_running,     \* self.test_running
  current_process,  \* self.current_process: NoProcess or <<run, cmd>>
  run_button,       \* state of the Run button: "normal" or "disabled"
  stop_button,      \* state of the Stop button
  test_type,        \* value of the test-type combobox
  testbench,        \* value of the testbench combobox
  auto_report,      \* the auto_report BooleanVar
  console,          \* console widget: per run, its messages in widget order
  system_log,       \* system-log widget: per run, its messages in widget order
  console_state,    \* state option of the console: "normal" or "disabled"
  system_log_state, \* state option of the system log
  after_queue,      \* callbacks registered with root.after(0, ...), in order
  scans,            \* number of update_results() calls so far
  main_pc,          \* "loop", or the place of the main thread inside
                    \* stop_tests ("stop_...") or update_results ("scan_...")
  term_proc,        \* inside Popen.terminate(): the process it was called on
  scan_todo,        \* inside update_results and export_results: the listed
                    \* logs still to be read
  due,              \* inside a pass of the timer handler: the callbacks at
                    \* the head of after_queue it has still to run
  export_rows,      \* inside export_results: <<>>, or <<the "simulation"
                    \* list built so far>>
  project_root,     \* self.project_root
  stop_error,       \* stop_tests raised AttributeError at least once
  nruns,            \* worker threads started so far
  nstops,           \* stop_tests calls so far
  pc,               \* per worker thread: its position
  cur,              \* per worker: which command it is running (1 or 2)
  command,          \* per worker: the argument of _run_command
  nread,            \* per worker: lines of the current process read so far
  outcome,          \* per worker: "none", "success" or "error" (final message)
  wlog,             \* per worker: Tk calls made so far by its log_message call
  proc,             \* per run and command: the child process
  cancel_req,       \* history: stop_tests was called while the run was going
  completed,        \* history: _test_completed calls made for the run
  decoded,          \* per worker: lines of the current process decoded so far
  raised,           \* per worker: str(e) of the exception it raised, or <<>>
  fs,               \* the results directory on disk
  changes,          \* number of changes of the results directory so far
  export_doc,       \* the document written by the last export_results
  summary,          \* the Results tab: three summary labels and the tree
  scan_state,       \* history: "none", or how the latest scan and the
                    \* changes of the directory followed each other
  scan_before,      \* history: <<summary>> as it was when the scan began, for
                    \* a scan of a directory unchanged since the scan before
  seen,             \* per worker, the widget values it has read
  chosen,           \* history: per run, the widget values when run_tests ran,
                    \* kept until the worker has used its read of the widget
  stop_target       \* history: the run the stop_tests in progress is for

widgets ==
  <<run_button, stop_button, test_type, testbench, auto_report, project_root>>
logs == <<console, system_log, console_state, system_log_state>>
handler == <<main_pc, term_proc, scan_todo, due, export_rows>>
workers == <<pc, cur, command, nread, decoded, raised, outcome, wlog>>
disk == <<fs, changes, export_doc>>
shown == <<summary, scan_state, scan_before>>
history == <<cancel_req, completed, stop_target, seen, chosen>>
vars ==
  <<test_running, current_process, widgets, logs, after_queue, scans, handler,
    stop_error, nruns, nstops, workers, proc, disk, shown, history>>

\* Nothing read yet by a worker: each field becomes <<value>> when read.
NothingSeen == [test_type |-> <<>>, testbench |-> <<>>, auto_report |-> <<>>]

NoProc ==
  [st |-> "none", cmd |-> <<>>, out |-> <<>>, sigs |-> 0, status |-> NoCode,
   returncode |-> NoCode, late |-> FALSE]

\* __init__ and create_widgets, the results directory on disk being f.
Start(f) ==
  /\ test_running = FALSE
  /\ current_process = NoProcess
  /\ run_button = "normal"
  /\ stop_button = "disabled"
  /\ test_type = "All Tests"
  /\ testbench = "tb_jtag_controller"
  /\ auto_report = TRUE
  /\ console = [r \in Runs |-> <<>>]
  /\ system_log = [r \in Runs |-> <<>>]
  /\ console_state = "disabled"
  /\ system_log_state = "disabled"
  /\ after_queue = <<>>
  /\ scans = 0
  /\ main_pc = "loop"
  /\ term_proc = NoProcess
  /\ scan_todo = <<>>
  /\ due = 0
  /\ export_rows = <<>>
  /\ project_root = "repository"
  /\ stop_error = FALSE
  /\ nruns = 0
  /\ nstops = 0
  /\ pc = [r \in Runs |-> "unstarted"]
  /\ cur = [r \in Runs |-> 1]
  /\ command = [r \in Runs |-> <<>>]
  /\ nread = [r \in Runs |-> 0]
  /\ decoded = [r \in Runs |-> 0]
  /\ raised = [r \in Runs |-> NoException]
  /\ wlog = [r \in Runs |-> 0]
  /\ fs = f
  /\ changes = 0
  /\ export_doc = NoDocument
  /\ summary = InitialSummary
  /\ scan_state = "none"
  /\ scan_before = <<>>
  /\ seen = [r \in Runs |-> NothingSeen]
  /\ chosen = [r \in Runs |-> NothingSeen]
  /\ outcome = [r \in Runs |-> "none"]
  /\ proc = [r \in Runs |-> [c \in Cmds |-> NoProc]]
  /\ cancel_req = [r \in Runs |-> FALSE]
  /\ completed = [r \in Runs |-> 0]
  /\ stop_target = 0

\* The program is started with no results directory on disk.
Init == Start(NoResults)

\* The program is started with no results directory, or with the one an
\* earlier build has left.
InitResults == \E f \in StartDirs : Start(f)

\* The main loop is between two handlers (it serves the Tk calls of other
\* threads only then).
MainIdle == main_pc = "loop" /\ due = 0

\* --------------------------------------------------------------- messages
\* A logged message: its text, tagged with where it came from (run, command
\* and, for an output line, the line's position in the process's output).
\* log_message prefixes the wall-clock time, which the model leaves out.
Msg(kind, r, c, i, text) ==
  [kind |-> kind, run |-> r, cmd |-> c, idx |-> i, text |-> text]

\* log_message run by the main thread (in a handler or an after-callback):
\* each widget is made editable, gets the message at its end and is made
\* read-only again.  Each widget is kept as its projections on the runs:
\* console[r] is the sequence of the widget's messages that stem from run r.
LogMessage(m) ==
  /\ console' = [console EXCEPT ![m.run] = Append(@, m)]
  /\ system_log' = [system_log EXCEPT ![m.run] = Append(@, m)]
  /\ console_state' = "disabled"
  /\ system_log_state' = "disabled"

\* Text.insert: a widget whose state is "disabled" ignores it.
Insert(text, state, m) == IF state = "normal" THEN Append(text, m) ELSE text

\* The Tk calls of log_message that act on the widgets' text and state, in the
\* order it makes them (l.248, 249, 251, 254, 255, 257).
LogMessageCalls ==
  << <<"console", "config">>, <<"console", "insert">>, <<"console", "config">>,
     <<"system_log", "config">>, <<"system_log", "insert">>,
     <<"system_log", "config">> >>

LogCalls == Len(LogMessageCalls)

\* log_message(m) called by worker r: its next Tk call.  Each call is served
\* by the main loop on its own, between two handlers: config(state=NORMAL),
\* insert, config(state=DISABLED) on the console, then the same on the system
\* log.  (see(), which only moves the view, goes with the config call after
\* it.)
WorkerLog(r, m) ==
  /\ MainIdle
  /\ wlog' = [wlog EXCEPT ![r] = (@ + 1) % LogCalls]
  /\ \/ /\ wlog[r] = 0
        /\ console_state' = "normal"
        /\ UNCHANGED <<console, system_log, system_log_state>>
     \/ /\ wlog[r] = 1
        /\ console' = [console EXCEPT ![r] = Insert(@, console_state, m)]
        /\ UNCHANGED <<system_log, console_state, system_log_state>>
     \/ /\ wlog[r] = 2
        /\ console_state' = "disabled"
        /\ UNCHANGED <<console, system_log, system_log_state>>
     \/ /\ wlog[r] = 3
        /\ system_log_state' = "normal"
        /\ UNCHANGED <<console, system_log, console_state>>
     \/ /\ wlog[r] = 4
        /\ system_log' = [system_log EXCEPT ![r] =
                            Insert(@, system_log_state, m)]
        /\ UNCHANGED <<console, console_state, system_log_state>>
     \/ /\ wlog[r] = 5
        /\ system_log_state' = "disabled"
        /\ UNCHANGED <<console, system_log, console_state>>

\* The call WorkerLog makes now is the last one: log_message returns.
WorkerLogReturns(r) == wlog[r] = LogCalls - 1

\* Mutant of AfterEnqueue: the callback is put ahead of the waiting ones.
AfterEnqueueFront(q, cb) == <<cb>> \o q

\* root.after(0, callback): the callback joins the timer queue behind the
\* callbacks registered before it.
AfterEnqueue(q, cb) == Append(q, cb)

LogCallback(m) == [kind |-> "log", msg |-> m, run |-> m.run]
CompletedCallback(r) == [kind |-> "completed", msg |-> <<>>, run |-> r]

\* scan_state when a scan begins, when the directory changes, and when the
\* scan ends.  "scanned": the latest scan is over and the directory has not
\* changed since it began; "rescanned": the same, and the directory had not
\* changed since the scan before it began either.
ScanBegun(st) ==
  IF st \in {"scanned", "rescanned"} THEN "rescanning" ELSE "scanning"

Touched(st) ==
  CASE st = "none" -> "none"
    [] st \in {"scanning", "rescanning", "dirty"} -> "dirty"
    [] OTHER -> "changed"

ScanEnded(st) ==
  CASE st = "scanning" -> "scanned"
    [] st = "rescanning" -> "rescanned"
    [] OTHER -> "changed"

\* update_results() begins: every row of the tree is deleted, then
\* results_dir.exists() is asked; without the directory the call is over.
UpdateResults ==
  /\ scans' = scans + 1
  /\ summary' = [summary EXCEPT !.tree = ClearTree(@)]
  /\ scan_todo' = <<>>
  /\ LET st == ScanBegun(scan_state) IN
       /\ scan_before' = IF st = "rescanning" THEN <<summary>> ELSE <<>>
       /\ scan_state' = IF fs.root THEN st ELSE ScanEnded(st)
  /\ main_pc' = IF fs.root THEN "scan_sim" ELSE "loop"

\* _test_completed(), called for run r (0: for no run), up to the first
\* look at the disk of its update_results() call.
TestCompleted(r) ==
  /\ test_running' = FALSE
  /\ run_button' = "normal"
  /\ stop_button' = "disabled"
  /\ UpdateResults
  /\ completed' = IF r \in Runs THEN [completed EXCEPT ![r] = @ + 1] ELSE completed

\* ------------------------------------------------------------ main thread
\* run_tests(): refused while test_running, else the console is emptied
\* (made editable, emptied, made read-only) and a worker thread is started.
RunTests ==
  /\ MainIdle
  /\ \/ /\ test_running
        /\ UNCHANGED vars
     \/ /\ ~test_running
        /\ nruns < MaxRuns
        /\ test_running' = TRUE
        /\ run_button' = "disabled"
        /\ stop_button' = "normal"
        /\ console' = [r \in Runs |-> <<>>]
        /\ console_state' = "disabled"
        /\ nruns' = nruns + 1
        /\ pc' = [pc EXCEPT ![nruns + 1] = "start"]
        /\ chosen' = [chosen EXCEPT ![nruns + 1] =
                        [test_type |-> <<test_type>>,
                         testbench |-> <<testbench>>,
                         auto_report |-> <<auto_report>>]]
        /\ UNCHANGED <<current_process, test_type, testbench, auto_report,
                       project_root, system_log, system_log_state,
                       after_queue, scans, shown, handler, stop_error, nstops,
                       cur, command, nread, decoded, raised, outcome, wlog,
                       proc, cancel_req, completed, stop_target, seen, disk>>

\* The run a stop_tests call made now is about: the one test_running stands for.
CurrentRun == IF test_running THEN nruns ELSE 0

\* A run is going from run_tests until its worker has logged its final message.
Going(r) == pc[r] \notin {"unstarted", "finally", "done"}

\* stop_tests(), first read of self.current_process (the if).  With no process
\* the handler goes straight to _test_completed().
StopTestsCheck ==
  /\ MainIdle
  /\ nstops < MaxStops
  /\ nstops' = nstops + 1
  /\ cancel_req' = [r \in Runs |-> cancel_req[r] \/ (r = CurrentRun /\ Going(r))]
  /\ IF current_process # NoProcess
       THEN /\ main_pc' = "stop_terminate"
            /\ stop_target' = CurrentRun
            /\ UNCHANGED <<test_running, current_process, widgets, logs,
                           after_queue, scans, shown, term_proc, due,
                           export_rows, scan_todo, stop_error, nruns, workers,
                           proc, completed, disk, seen, chosen>>
       ELSE /\ TestCompleted(CurrentRun)
            /\ UNCHANGED <<current_process, test_type, testbench, auto_report,
                           project_root, logs, after_queue, term_proc, due,
                           export_rows, stop_error, nruns, workers, proc,
                           stop_target, disk, seen, chosen>>

\* Popen.poll(), the first thing terminate() does: a process that has
\* exited is reaped and its returncode set; a running one, and one already
\* waited on, are left as they are.
Poll(p) ==
  IF p.st = "exited" THEN [p EXCEPT !.st = "reaped", !.returncode = p.status]
  ELSE p

\* os.kill(pid, SIGTERM), made when poll() left returncode None: a running
\* process gets the signal; one that has exited in the meantime ignores it,
\* and for one that was reaped in the meantime the error is suppressed.
Kill(p) == IF p.st = "running" THEN [p EXCEPT !.sigs = @ + 1] ELSE p

\* stop_tests() once terminate() has returned for process q: the log line and
\* _test_completed().
StopTestsLogged(q) ==
  /\ LogMessage(Msg("stopped", q[1], q[2], 0, <<>>))
  /\ TestCompleted(stop_target)
  /\ stop_target' = 0
  /\ term_proc' = NoProcess
  /\ UNCHANGED <<due, export_rows>>

\* stop_tests(), second read of self.current_process (the call of
\* terminate): None here raises AttributeError and the handler ends.
\* Otherwise terminate() polls the process: with a returncode it returns at
\* once and stop_tests goes on, without one it goes on to os.kill.
StopTestsTerminate ==
  /\ main_pc = "stop_terminate"
  /\ IF current_process = NoProcess
       THEN /\ stop_error' = TRUE
            /\ main_pc' = "loop"
            /\ stop_target' = 0
            /\ UNCHANGED <<test_running, current_process, widgets, logs,
                           after_queue, scans, shown, term_proc, due,
                           export_rows, scan_todo, nruns, nstops, workers,
                           proc, cancel_req, completed, disk, seen, chosen>>
       ELSE LET q == current_process
                p == Poll(proc[q[1]][q[2]])
            IN
              /\ proc' = [proc EXCEPT ![q[1]][q[2]] = p]
              /\ IF p.returncode = NoCode
                   THEN /\ main_pc' = "stop_kill"
                        /\ term_proc' = q
                        /\ UNCHANGED <<test_running, widgets, logs, scans,
                                       shown, scan_todo, due, export_rows,
                                       completed, stop_target>>
                   ELSE /\ StopTestsLogged(q)
                        /\ UNCHANGED <<test_type, testbench, auto_report,
                                       project_root>>
              /\ UNCHANGED <<current_process, after_queue, stop_error, nruns,
                             nstops, workers, cancel_req, disk, seen, chosen>>

\* stop_tests(), inside terminate(): os.kill, then the rest of stop_tests.
StopTestsKill ==
  /\ main_pc = "stop_kill"
  /\ proc' = [proc EXCEPT ![term_proc[1]][term_proc[2]] = Kill(@)]
  /\ StopTestsLogged(term_proc)
  /\ UNCHANGED <<current_process, test_type, testbench, auto_report,
                 project_root, after_queue, stop_error, nruns, nstops,
                 workers, cancel_req, disk, seen, chosen>>

\* The timer handler of the main loop.  One pass of it runs the callbacks
\* that are due when it begins, oldest first and one after the other; the
\* main loop serves nothing else (no Tk call of another thread, no click)
\* before the pass is over, and a callback registered later waits for the
\* next pass.  This step runs the next callback of the pass: a queued
\* log_message, or _test_completed up to the first look at the disk of its
\* update_results() call.
AfterCallback ==
  /\ main_pc = "loop"
  /\ after_queue # <<>>
  /\ due' = (IF due = 0 THEN Len(after_queue) ELSE due) - 1
  /\ after_queue' = Tail(after_queue)
  /\ LET cb == Head(after_queue) IN
       IF cb.kind = "log"
         THEN /\ LogMessage(cb.msg)
              /\ UNCHANGED <<test_running, current_process, widgets, scans,
                             shown, main_pc, term_proc, scan_todo,
                             export_rows, stop_error, nruns, nstops, workers,
                             proc, history, disk>>
         ELSE /\ TestCompleted(cb.run)
              /\ UNCHANGED <<current_process, test_type, testbench,
                             auto_report, project_root, logs, term_proc,
                             export_rows, stop_error, nruns, nstops, workers,
                             proc, cancel_req, stop_target, disk, seen, chosen>>

\* The user flips the auto-report checkbox.
ToggleAutoReport ==
  /\ MainIdle
  /\ auto_report' = ~auto_report
  /\ UNCHANGED <<test_running, current_process, run_button, stop_button,
                 test_type, testbench, project_root, logs, after_queue, scans,
                 shown, handler, stop_error, nruns, nstops, workers, proc,
                 history, disk>>

\* The user picks a value of the test-type combobox, or types one.
SelectTestType ==
  /\ MainIdle
  /\ \E tt \in TestTypes \cup TypedTestTypes : test_type' = tt
  /\ UNCHANGED <<test_running, current_process, run_button, stop_button,
                 testbench, auto_report, project_root, logs, after_queue,
                 scans, shown, handler, stop_error, nruns, nstops, workers,
                 proc, history, disk>>

\* The user picks a value of the testbench combobox, or types one.
SelectTestbench ==
  /\ MainIdle
  /\ \E tb \in Testbenches \cup TypedTestbenches : testbench' = tb
  /\ UNCHANGED <<test_running, current_process, run_button, stop_button,
                 test_type, auto_report, project_root, logs, after_queue,
                 scans, shown, handler, stop_error, nruns, nstops, workers,
                 proc, history, disk>>

\* log_message of a message that stems from no run, by the main thread: the
\* text is not kept, both widgets are read-only afterwards.
LogMessageOther ==
  /\ console_state' = "disabled"
  /\ system_log_state' = "disabled"
  /\ UNCHANGED <<console, system_log>>

\* What a handler step that only moves the main thread leaves alone.
HandlerKeeps ==
  UNCHANGED <<test_running, current_process, widgets, after_queue, scans,
              shown, term_proc, scan_todo, due, export_rows, stop_error,
              nruns, nstops, workers, proc, history, disk>>

\* clear_results(), confirmed in the dialog: the handler calls
\* subprocess.run(["make", "clean"]) and waits in it (l.359-362).  What make
\* removes meanwhile is a change of the disk made by another process.
ClearResults ==
  /\ MainIdle
  /\ scans < MaxScans
  /\ main_pc' = "clear_make"
  /\ UNCHANGED logs
  /\ HandlerKeeps

\* subprocess.run has returned (l.362-366): after an error (chdir, no make,
\* a non-zero exit) an error box is shown and nothing else happens;
\* otherwise "Results cleared" is logged and update_results() begins, on the
\* results directory as it is by now.
ClearResultsMake ==
  /\ main_pc = "clear_make"
  /\ \/ /\ main_pc' = "loop"
        /\ UNCHANGED logs
        /\ HandlerKeeps
     \/ /\ LogMessageOther
        /\ UpdateResults
        /\ UNCHANGED <<test_running, current_process, widgets, after_queue,
                       term_proc, due, export_rows, stop_error, nruns, nstops,
                       workers, proc, history, disk>>

\* generate_report(): the handler waits in subprocess.run (l.370-372).
GenerateReport ==
  /\ MainIdle
  /\ main_pc' = "report_make"
  /\ UNCHANGED logs
  /\ HandlerKeeps

\* subprocess.run has returned (l.372-375): the message is logged, or after
\* an error the error box is shown.
GenerateReportMake ==
  /\ main_pc = "report_make"
  /\ main_pc' = "loop"
  /\ LogMessageOther \/ UNCHANGED logs
  /\ HandlerKeeps

\* install_tools(), confirmed in the dialog: the handler waits in
\* subprocess.run (l.395-398).
InstallTools ==
  /\ MainIdle
  /\ main_pc' = "install_run"
  /\ UNCHANGED logs
  /\ HandlerKeeps

\* subprocess.run has returned (l.398-402): the message is logged and
\* check_environment() called, or after an error the error box is shown.
InstallToolsRun ==
  /\ main_pc = "install_run"
  /\ \/ main_pc' = "loop" /\ UNCHANGED logs
     \/ main_pc' = "check_env" /\ LogMessageOther
  /\ HandlerKeeps

\* check_environment(): the handler waits in subprocess.run (l.379-381).
CheckEnvironment ==
  /\ MainIdle
  /\ main_pc' = "check_env"
  /\ UNCHANGED logs
  /\ HandlerKeeps

\* subprocess.run has returned (l.381-391): its output goes into the
\* environment-status widget, which the model leaves out.
CheckEnvironmentRun ==
  /\ main_pc = "check_env"
  /\ main_pc' = "loop"
  /\ UNCHANGED logs
  /\ HandlerKeeps

\* browse_project_path(), a directory chosen: it becomes project_root.
\* results_dir, set in __init__, stays the directory it was.
BrowseProjectPath ==
  /\ MainIdle
  /\ \E path \in ProjectRoots : project_root' = path
  /\ UNCHANGED <<test_running, current_process, run_button, stop_button,
                 test_type, testbench, auto_report, logs, after_queue, scans,
                 shown, handler, stop_error, nruns, nstops, workers, proc,
                 history, disk>>

\* ------------------------------------------------- update_results, onwards
\* What a step inside update_results leaves alone, whatever it does to the
\* Results tab.
ScanKeeps ==
  UNCHANGED <<test_running, current_process, widgets, logs, after_queue,
              scans, term_proc, due, export_rows, stop_error, nruns, nstops,
              workers, proc, history, disk, scan_before>>

\* An exception leaves update_results, and its caller: the scan is over and
\* the Results tab stays as it is.
ScanRaises ==
  /\ main_pc' = "loop"
  /\ scan_todo' = <<>>
  /\ scan_state' = ScanEnded(scan_state)
  /\ UNCHANGED summary

\* sim_dir.exists() (l.414): without results/simulation/logs the scan goes on
\* to the synthesis directory.
ScanSimExists ==
  /\ main_pc = "scan_sim"
  /\ main_pc' = IF fs.sim.exists THEN "scan_count" ELSE "scan_syn"
  /\ UNCHANGED <<summary, scan_state, scan_todo>>
  /\ ScanKeeps

\* The first listing of the logs (l.415): its length goes into the label, and
\* the Simulations node is added to the tree (l.419).
ScanSimCount ==
  /\ main_pc = "scan_count"
  /\ \E g \in GlobOutcomes(fs.sim, ".log") :
       IF g.ok
         THEN /\ summary' =
                   [summary EXCEPT
                      !.sim_status = <<Len(g.files)>>,
                      !.tree = Append(@, [text |-> "Simulations",
                                          rows |-> <<>>])]
              /\ main_pc' = "scan_list"
              /\ UNCHANGED <<scan_state, scan_todo>>
         ELSE ScanRaises
  /\ ScanKeeps

\* The second listing of the logs (l.420), made when the for loop starts: the
\* names it finds are the ones the loop will read.
ScanSimList ==
  /\ main_pc = "scan_list"
  /\ \E g \in GlobOutcomes(fs.sim, ".log") :
       IF g.ok
         THEN /\ scan_todo' = [k \in 1..Len(g.files) |-> g.files[k].name]
              /\ main_pc' = IF g.files = <<>> THEN "scan_syn" ELSE "scan_read"
              /\ UNCHANGED <<summary, scan_state>>
         ELSE ScanRaises
  /\ ScanKeeps

\* One turn of the for loop (l.421-422): the next listed log is read and its
\* row added under the Simulations node.  read_text() raises for a log that
\* is no longer there and for one that cannot be read as text.
ScanSimRead ==
  /\ main_pc = "scan_read"
  /\ LET name == Head(scan_todo)
         at == {k \in 1..Len(fs.sim.files) : fs.sim.files[k].name = name}
     IN
       IF at = {} \/ (\E k \in at : ReadTextRaises(fs.sim.files[k]))
         THEN ScanRaises
         ELSE /\ \E k \in at :
                   summary' =
                     [summary EXCEPT !.tree[Len(summary.tree)].rows =
                        Append(@, [name |-> Stem(name),
                                   status |-> LogStatus(fs.sim.files[k].text)])]
              /\ scan_todo' = Tail(scan_todo)
              /\ main_pc' = IF Tail(scan_todo) = <<>> THEN "scan_syn"
                                                     ELSE "scan_read"
              /\ UNCHANGED scan_state
  /\ ScanKeeps

\* syn_dir.exists() (l.426).
ScanSynExists ==
  /\ main_pc = "scan_syn"
  /\ main_pc' = IF fs.syn.exists THEN "scan_syn_count" ELSE "scan_cov"
  /\ UNCHANGED <<summary, scan_state, scan_todo>>
  /\ ScanKeeps

\* The listing of results/synthesis (l.427) and its label.
ScanSynCount ==
  /\ main_pc = "scan_syn_count"
  /\ \E g \in GlobOutcomes(fs.syn, "_synth.v") :
       IF g.ok
         THEN /\ summary' = [summary EXCEPT !.syn_status = <<Len(g.files)>>]
              /\ main_pc' = "scan_cov"
              /\ UNCHANGED <<scan_state, scan_todo>>
         ELSE ScanRaises
  /\ ScanKeeps

\* cov_dir.exists() (l.432): without results/coverage update_results returns.
ScanCovExists ==
  /\ main_pc = "scan_cov"
  /\ IF fs.cov.exists
       THEN main_pc' = "scan_cov_count" /\ UNCHANGED scan_state
       ELSE main_pc' = "loop" /\ scan_state' = ScanEnded(scan_state)
  /\ UNCHANGED <<summary, scan_todo>>
  /\ ScanKeeps

\* The listing of results/coverage (l.433) and its label; update_results
\* returns.
ScanCovCount ==
  /\ main_pc = "scan_cov_count"
  /\ \E g \in GlobOutcomes(fs.cov, ".log") :
       IF g.ok
         THEN /\ summary' = [summary EXCEPT !.cov_status = <<Len(g.files)>>]
              /\ main_pc' = "loop"
              /\ scan_state' = ScanEnded(scan_state)
              /\ UNCHANGED scan_todo
         ELSE ScanRaises
  /\ ScanKeeps

\* The steps of update_results after its first look at the disk.
UpdateResultsStep ==
  \/ ScanSimExists \/ ScanSimCount \/ ScanSimList \/ ScanSimRead
  \/ ScanSynExists \/ ScanSynCount \/ ScanCovExists \/ ScanCovCount

\* ----------------------------------------------------------- export_results
\* What a step inside export_results leaves alone.
ExportKeeps ==
  UNCHANGED <<test_running, current_process, widgets, logs, after_queue,
              scans, shown, term_proc, due, stop_error, nruns, nstops,
              workers, proc, history, fs, changes>>

\* An exception leaves export_results: no document is written.
ExportRaises ==
  /\ main_pc' = "loop"
  /\ scan_todo' = <<>>
  /\ export_rows' = <<>>
  /\ UNCHANGED export_doc

\* export_results(), a file name chosen in the dialog (l.476-486): the
\* document is begun, with no "simulation" entry yet.
ExportResults ==
  /\ MainIdle
  /\ main_pc' = "export_sim"
  /\ export_rows' = <<>>
  /\ UNCHANGED <<scan_todo, export_doc>>
  /\ ExportKeeps

\* sim_dir.exists() (l.490-491): with results/simulation/logs the
\* "simulation" entry is set to an empty list.
ExportSimExists ==
  /\ main_pc = "export_sim"
  /\ IF fs.sim.exists
       THEN main_pc' = "export_list" /\ export_rows' = << <<>> >>
       ELSE main_pc' = "export_write" /\ UNCHANGED export_rows
  /\ UNCHANGED <<scan_todo, export_doc>>
  /\ ExportKeeps

\* The listing of the logs (l.492), made when the for loop starts.
ExportSimList ==
  /\ main_pc = "export_list"
  /\ \E g \in GlobOutcomes(fs.sim, ".log") :
       IF g.ok
         THEN /\ scan_todo' = [k \in 1..Len(g.files) |-> g.files[k].name]
              /\ main_pc' = IF g.files = <<>> THEN "export_write"
                                              ELSE "export_read"
              /\ UNCHANGED <<export_rows, export_doc>>
         ELSE ExportRaises
  /\ ExportKeeps

\* One turn of the for loop (l.493-496): the next listed log is read and its
\* entry appended.  read_text() raises for a log that is no longer there and
\* for one that cannot be read as text.
ExportSimRead ==
  /\ main_pc = "export_read"
  /\ LET name == Head(scan_todo)
         at == {k \in 1..Len(fs.sim.files) : fs.sim.files[k].name = name}
     IN
       IF at = {} \/ (\E k \in at : ReadTextRaises(fs.sim.files[k]))
         THEN ExportRaises
         ELSE /\ \E k \in at :
                   export_rows' =
                     << Append(export_rows[1],
                               [name |-> Stem(name),
                                status |-> LogStatus(fs.sim.files[k].text)]) >>
              /\ scan_todo' = Tail(scan_todo)
              /\ main_pc' = IF Tail(scan_todo) = <<>> THEN "export_write"
                                                     ELSE "export_read"
              /\ UNCHANGED export_doc
  /\ ExportKeeps

\* open(filename, 'w') succeeds and the document is written (l.499-500).
ExportDump ==
  /\ main_pc = "export_write"
  /\ export_doc' = <<ExportDocument(project_root, export_rows)>>
  /\ main_pc' = "loop"
  /\ export_rows' = <<>>
  /\ UNCHANGED scan_todo
  /\ ExportKeeps

\* open(filename, 'w') raises (l.499: the destination cannot be opened for
\* writing): nothing is written.
ExportOpenRaises ==
  /\ main_pc = "export_write"
  /\ ExportRaises
  /\ ExportKeeps

\* The document is saved, or the attempt fails (l.499-500).
ExportWrite == ExportDump \/ ExportOpenRaises

\* The steps of export_results after its beginning.
ExportResultsStep ==
  \/ ExportSimExists \/ ExportSimList \/ ExportSimRead \/ ExportWrite

\* ---------------------------------------------------------- worker thread
\* Position of a worker after _run_command returned normally: the auto-report
\* test after the build command, the success message after the report command.
AfterCommand(c) == IF c = 1 THEN "auto" ELSE "success"

\* Mutant of CommandFailed: the return code is not looked at.
CommandFailedIgnored(rc) == FALSE

\* process.returncode != 0 (None is not 0 either).
CommandFailed(rc) == rc # <<0>>

\* Mutant of PcAfterPopen: _run_command returns as soon as the process is
\* started, without reading its output or waiting for it.
PcAfterPopenNoWait(c) == AfterCommand(c)

\* Where _run_command goes once Popen has returned the process of command c:
\* on to the assignment of current_process, the read loop and the wait.
PcAfterPopen(c) == "set_cp"

\* Mutant of WaitReturns: process.wait() blocks for ever.
WaitReturnsNever(p) == FALSE

\* process.wait() returns once the process has exited.
WaitReturns(p) == p.st \in {"exited", "reaped"}

\* _run_tests_thread: test_type = self.test_type.get() (l.283), read now.
WStart(r) ==
  /\ pc[r] = "start"
  /\ MainIdle
  /\ pc' = [pc EXCEPT ![r] = "chdir"]
  /\ cur' = [cur EXCEPT ![r] = 1]
  /\ seen' = [seen EXCEPT ![r].test_type = <<test_type>>]
  /\ UNCHANGED <<test_running, current_process, widgets, logs, after_queue,
                 scans, shown, handler, stop_error, nruns, nstops, command,
                 nread, decoded, raised, outcome, wlog, proc, cancel_req,
                 completed, stop_target, chosen, disk>>

\* _run_tests_thread: os.chdir(self.project_root) (l.286), which raises when
\* the directory cannot be entered; then the if/elif chain on the test type
\* read before: every branch but the last has its command; the last one has
\* the testbench still to read.
WChdir(r) ==
  /\ pc[r] = "chdir"
  /\ LET tt == seen[r].test_type[1]
         cmd == BuildCommand(tt, testbench)
     IN
       \/ /\ tt = "Individual Testbench"
          /\ pc' = [pc EXCEPT ![r] = "testbench"]
          /\ UNCHANGED <<command, chosen, raised>>
       \/ /\ tt # "Individual Testbench"
          /\ command' = [command EXCEPT ![r] = cmd]
          /\ pc' = [pc EXCEPT ![r] = IF cmd = <<>> THEN "auto"
                                                  ELSE "log_running"]
          /\ chosen' = [chosen EXCEPT ![r].test_type = <<>>,
                                      ![r].testbench = <<>>]
          /\ UNCHANGED raised
       \/ /\ pc' = [pc EXCEPT ![r] = "except"]
          /\ raised' = [raised EXCEPT ![r] = ChdirError]
          /\ chosen' = [chosen EXCEPT ![r].test_type = <<>>,
                                      ![r].testbench = <<>>]
          /\ UNCHANGED command
  /\ UNCHANGED <<test_running, current_process, widgets, logs, after_queue,
                 scans, shown, handler, stop_error, nruns, nstops, cur, nread,
                 decoded, outcome, wlog, proc, cancel_req, completed,
                 stop_target, seen, disk>>

\* _run_tests_thread, branch "Individual Testbench": testbench =
\* self.testbench.get() (l.301), read now, and the command made of it.
WTestbench(r) ==
  /\ pc[r] = "testbench"
  /\ MainIdle
  /\ command' = [command EXCEPT ![r] =
                   BuildCommand(seen[r].test_type[1], testbench)]
  /\ pc' = [pc EXCEPT ![r] = "log_running"]
  /\ seen' = [seen EXCEPT ![r].testbench = <<testbench>>]
  /\ chosen' = [chosen EXCEPT ![r].test_type = <<>>, ![r].testbench = <<>>]
  /\ UNCHANGED <<test_running, current_process, widgets, logs, after_queue,
                 scans, shown, handler, stop_error, nruns, nstops, cur, nread,
                 decoded, raised, outcome, wlog, proc, cancel_req, completed,
                 stop_target, disk>>

\* _run_command: log_message("Running: ...").
WLogRunning(r) ==
  /\ pc[r] = "log_running"
  /\ WorkerLog(r, Msg("running", r, cur[r], 0, command[r]))
  /\ pc' = [pc EXCEPT ![r] = IF WorkerLogReturns(r) THEN "popen" ELSE @]
  /\ UNCHANGED <<test_running, current_process, widgets, after_queue, scans,
                 shown, handler, stop_error, nruns, nstops, cur, command,
                 nread, decoded, raised, outcome, proc, history, disk>>

\* Where the worker goes when Popen raised for command c: the exception leaves
\* _run_command and lands in the except clause of _run_tests_thread.
PcAfterLaunchError(c) == "except"

\* _run_command: subprocess.Popen(command): the process starts, or the launch
\* raises (the tool is missing): no process exists then (st "failed").
WPopen(r) ==
  /\ pc[r] = "popen"
  /\ \/ /\ proc' = [proc EXCEPT ![r][cur[r]] =
                      [NoProc EXCEPT !.st = "running", !.cmd = command[r],
                                     !.late = cancel_req[r]]]
        /\ pc' = [pc EXCEPT ![r] = PcAfterPopen(cur[r])]
        /\ UNCHANGED raised
     \/ /\ proc' = [proc EXCEPT ![r][cur[r]] =
                      [NoProc EXCEPT !.st = "failed", !.cmd = command[r]]]
        /\ pc' = [pc EXCEPT ![r] = PcAfterLaunchError(cur[r])]
        /\ raised' = [raised EXCEPT ![r] = LaunchError]
  /\ UNCHANGED <<test_running, current_process, widgets, logs, after_queue,
                 scans, shown, handler, stop_error, nruns, nstops, cur,
                 command, nread, decoded, outcome, wlog, history, disk>>

\* _run_command: self.current_process = process.
WSetCurrent(r) ==
  /\ pc[r] = "set_cp"
  /\ current_process' = <<r, cur[r]>>
  /\ nread' = [nread EXCEPT ![r] = 0]
  /\ decoded' = [decoded EXCEPT ![r] = 0]
  /\ pc' = [pc EXCEPT ![r] = "read"]
  /\ UNCHANGED <<test_running, widgets, logs, after_queue, scans, shown,
                 handler, stop_error, nruns, nstops, cur, command, raised,
                 outcome, wlog, proc, history, disk>>

\* _run_command: one turn of `for line in process.stdout` (l.332), made by the
\* worker thread whatever the main loop is doing.  When the decoder holds no
\* decoded line it takes what the child has written so far and decodes it in
\* one piece: an invalid byte anywhere in the piece raises, and the exception
\* leaves _run_command at once (no wait, current_process kept).  Otherwise
\* the next line is produced; unless it strips to nothing (l.333) the worker
\* goes on to hand it to the main loop.
WReadLine(r) ==
  /\ pc[r] = "read"
  /\ nread[r] < Len(proc[r][cur[r]].out)
  /\ LET out == proc[r][cur[r]].out
         i == nread[r] + 1
         refill == nread[r] = decoded[r]
     IN
       IF refill /\ \E k \in (decoded[r] + 1)..Len(out) : Undecodable(out[k])
         THEN /\ pc' = [pc EXCEPT ![r] = "except"]
              /\ raised' = [raised EXCEPT ![r] = DecodeError]
              /\ UNCHANGED <<nread, decoded>>
         ELSE /\ decoded' = [decoded EXCEPT ![r] = IF refill THEN Len(out) ELSE @]
              /\ nread' = [nread EXCEPT ![r] = i]
              /\ pc' = [pc EXCEPT ![r] = IF Strip(out[i]) # <<>> THEN "after"
                                                                 ELSE "read"]
              /\ UNCHANGED raised
  /\ UNCHANGED <<test_running, current_process, widgets, logs, after_queue,
                 scans, shown, handler, stop_error, nruns, nstops, cur,
                 command, outcome, wlog, proc, history, disk>>

\* _run_command: root.after(0, lambda: self.log_message(line.strip())) (l.334)
\* for the line just read: a Tk call, served by the main loop between two
\* handlers; the worker waits inside it until then.
WAfterLine(r) ==
  /\ pc[r] = "after"
  /\ MainIdle
  /\ LET i == nread[r]
         text == Strip(proc[r][cur[r]].out[i])
     IN after_queue' =
          AfterEnqueue(after_queue, LogCallback(Msg("line", r, cur[r], i, text)))
  /\ pc' = [pc EXCEPT ![r] = "read"]
  /\ UNCHANGED <<test_running, current_process, widgets, logs, scans, shown,
                 handler, stop_error, nruns, nstops, cur, command, nread,
                 decoded, raised, outcome, wlog, proc, history, disk>>

\* _run_command: the for loop ends when the output is closed and drained.
WReadEOF(r) ==
  /\ pc[r] = "read"
  /\ nread[r] = Len(proc[r][cur[r]].out)
  /\ proc[r][cur[r]].st \in {"exited", "reaped"}
  /\ pc' = [pc EXCEPT ![r] = "wait"]
  /\ UNCHANGED <<test_running, current_process, widgets, logs, after_queue,
                 scans, shown, handler, stop_error, nruns, nstops, cur,
                 command, nread, decoded, raised, outcome, wlog, proc,
                 history, disk>>

\* _run_command: process.wait(): the process is reaped, returncode is set.
WWait(r) ==
  /\ pc[r] = "wait"
  /\ WaitReturns(proc[r][cur[r]])
  /\ LET p == proc[r][cur[r]] IN
       proc' = [proc EXCEPT ![r][cur[r]] =
                  [p EXCEPT !.st = "reaped", !.returncode = p.status]]
  /\ pc' = [pc EXCEPT ![r] = "clear"]
  /\ UNCHANGED <<test_running, current_process, widgets, logs, after_queue,
                 scans, shown, handler, stop_error, nruns, nstops, cur,
                 command, nread, decoded, raised, outcome, wlog, history,
                 disk>>

\* _run_command: self.current_process = None, then the returncode test: a
\* non-zero code raises, which lands the worker in the except clause.
WClearCurrent(r) ==
  /\ pc[r] = "clear"
  /\ current_process' = NoProcess
  /\ LET rc == proc[r][cur[r]].returncode IN
       IF CommandFailed(rc)
         THEN /\ pc' = [pc EXCEPT ![r] = "except"]
              /\ raised' = [raised EXCEPT ![r] = CommandFailedError(rc)]
         ELSE /\ pc' = [pc EXCEPT ![r] = AfterCommand(cur[r])]
              /\ UNCHANGED raised
  /\ UNCHANGED <<test_running, widgets, logs, after_queue, scans, shown,
                 handler, stop_error, nruns, nstops, cur, command, nread,
                 decoded, outcome, wlog, proc, history, disk>>

\* _run_tests_thread: if self.auto_report.get(), read now.
WAutoReport(r) ==
  /\ pc[r] = "auto"
  /\ MainIdle
  /\ pc' = [pc EXCEPT ![r] = IF auto_report THEN "log_report" ELSE "success"]
  /\ seen' = [seen EXCEPT ![r].auto_report = <<auto_report>>]
  /\ chosen' = [chosen EXCEPT ![r].auto_report = <<>>]
  /\ UNCHANGED <<test_running, current_process, widgets, logs, after_queue,
                 scans, shown, handler, stop_error, nruns, nstops, cur,
                 command, nread, decoded, raised, outcome, wlog, proc,
                 cancel_req, completed, stop_target, disk>>

\* _run_tests_thread: log_message("Generating HTML report..."), then the call
\* of _run_command for the report command.
WLogReport(r) ==
  /\ pc[r] = "log_report"
  /\ WorkerLog(r, Msg("generating", r, 0, 0, <<>>))
  /\ IF WorkerLogReturns(r)
       THEN /\ cur' = [cur EXCEPT ![r] = 2]
            /\ command' = [command EXCEPT ![r] = ReportCommand]
            /\ pc' = [pc EXCEPT ![r] = "log_running"]
       ELSE UNCHANGED <<cur, command, pc>>
  /\ UNCHANGED <<test_running, current_process, widgets, after_queue, scans,
                 shown, handler, stop_error, nruns, nstops, nread, decoded,
                 raised, outcome, proc, history, disk>>

\* _run_tests_thread: log_message("Tests completed successfully!").
WSuccess(r) ==
  /\ pc[r] = "success"
  /\ WorkerLog(r, Msg("success", r, 0, 0, <<>>))
  /\ IF WorkerLogReturns(r)
       THEN /\ outcome' = [outcome EXCEPT ![r] = "success"]
            /\ pc' = [pc EXCEPT ![r] = "finally"]
       ELSE UNCHANGED <<outcome, pc>>
  /\ UNCHANGED <<test_running, current_process, widgets, after_queue, scans,
                 shown, handler, stop_error, nruns, nstops, cur, command,
                 nread, decoded, raised, proc, history, disk>>

\* _run_tests_thread: except clause, log_message("Error running tests: ...")
\* with str(e) of the exception caught.
WExcept(r) ==
  /\ pc[r] = "except"
  /\ WorkerLog(r, Msg("error", r, cur[r], 0, raised[r]))
  /\ IF WorkerLogReturns(r)
       THEN /\ outcome' = [outcome EXCEPT ![r] = "error"]
            /\ pc' = [pc EXCEPT ![r] = "finally"]
       ELSE UNCHANGED <<outcome, pc>>
  /\ UNCHANGED <<test_running, current_process, widgets, after_queue, scans,
                 shown, handler, stop_error, nruns, nstops, cur, command,
                 nread, decoded, raised, proc, history, disk>>

\* _run_tests_thread: finally clause, root.after(0, self._test_completed).
WFinally(r) ==
  /\ pc[r] = "finally"
  /\ MainIdle
  /\ after_queue' = AfterEnqueue(after_queue, CompletedCallback(r))
  /\ pc' = [pc EXCEPT ![r] = "done"]
  /\ UNCHANGED <<test_running, current_process, widgets, logs, scans, shown,
                 handler, stop_error, nruns, nstops, cur, command, nread,
                 decoded, raised, outcome, wlog, proc, history, disk>>

\* --------------------------------------------------------- child processes
\* Exit codes of a command that was not signalled, and of one killed by SIGTERM.
ExitCodes == {0, 2}
TermCodes == {-15}

\* Lines written so far by the children of runs 1..n together.
RECURSIVE LinesWritten(_)
LinesWritten(n) ==
  IF n = 0 THEN 0
  ELSE LinesWritten(n - 1) + Len(proc[n][1].out) + Len(proc[n][2].out)

\* A running child writes one more line (MaxLines lines in all at most).
ProcEmit(r, c) ==
  /\ proc[r][c].st = "running"
  /\ LinesWritten(MaxRuns) < MaxLines
  /\ \E line \in LineChoices :
       proc' = [proc EXCEPT ![r][c].out = Append(@, line)]
  /\ UNCHANGED <<test_running, current_process, widgets, logs, after_queue,
                 scans, shown, handler, stop_error, nruns, nstops, workers,
                 history, disk>>

\* A running child closes its output and exits: by SIGTERM if it was sent one.
ProcExit(r, c) ==
  /\ proc[r][c].st = "running"
  /\ \E code \in (IF proc[r][c].sigs > 0 THEN TermCodes ELSE ExitCodes) :
       proc' = [proc EXCEPT ![r][c] = [@ EXCEPT !.st = "exited", !.status = <<code>>]]
  /\ UNCHANGED <<test_running, current_process, widgets, logs, after_queue,
                 scans, shown, handler, stop_error, nruns, nstops, workers,
                 history, disk>>

\* ------------------------------------------------------- results on disk
\* The three category directories, and the files that may appear in each.
Categories == {"sim", "syn", "cov"}

FileChoices(d) ==
  CASE d = "sim" -> SimLogChoices
    [] d = "syn" -> [name : SynFileNames, text : {<<>>}]
    [] d = "cov" -> [name : CovFileNames, text : {<<>>}]

InsertAt(files, k, f) ==
  SubSeq(files, 1, k - 1) \o <<f>> \o SubSeq(files, k, Len(files))

RemoveAt(files, k) ==
  SubSeq(files, 1, k - 1) \o SubSeq(files, k + 1, Len(files))

\* The results directory, or one category directory in it, is created.
FsMkdir ==
  /\ changes < MaxChanges
  /\ changes' = changes + 1
  /\ \/ ~fs.root /\ fs' = [fs EXCEPT !.root = TRUE]
     \/ /\ fs.root
        /\ \E d \in Categories :
             ~fs[d].exists /\ fs' = [fs EXCEPT ![d] = EmptyDir]
  /\ scan_state' = Touched(scan_state)
  /\ scan_before' = <<>>
  /\ UNCHANGED <<test_running, current_process, widgets, logs, after_queue,
                 scans, summary, handler, stop_error, nruns, nstops, workers,
                 proc, history, export_doc>>

\* A file is written into category directory d: a file of that name is
\* rewritten in place, a new file gets a place in the directory's listing.
FsWrite(d) ==
  /\ changes < MaxChanges
  /\ changes' = changes + 1
  /\ fs[d].exists
  /\ \E f \in FileChoices(d) :
       LET files == fs[d].files
           at == {k \in 1..Len(files) : files[k].name = f.name}
       IN
         IF at # {}
           THEN fs' = [fs EXCEPT ![d].files =
                         [k \in 1..Len(files) |->
                            IF k \in at THEN f ELSE files[k]]]
           ELSE \E k \in 1..(Len(files) + 1) :
                  fs' = [fs EXCEPT ![d].files = InsertAt(files, k, f)]
  /\ scan_state' = Touched(scan_state)
  /\ scan_before' = <<>>
  /\ UNCHANGED <<test_running, current_process, widgets, logs, after_queue,
                 scans, summary, handler, stop_error, nruns, nstops, workers,
                 proc, history, export_doc>>

\* A file of category directory d is removed.
FsRemove(d) ==
  /\ changes < MaxChanges
  /\ changes' = changes + 1
  /\ \E k \in 1..Len(fs[d].files) :
       fs' = [fs EXCEPT ![d].files = RemoveAt(fs[d].files, k)]
  /\ scan_state' = Touched(scan_state)
  /\ scan_before' = <<>>
  /\ UNCHANGED <<test_running, current_process, widgets, logs, after_queue,
                 scans, summary, handler, stop_error, nruns, nstops, workers,
                 proc, history, export_doc>>

\* The results directory is removed with all it holds.
FsRemoveResults ==
  /\ changes < MaxChanges
  /\ changes' = changes + 1
  /\ fs.root
  /\ fs' = NoResults
  /\ scan_state' = Touched(scan_state)
  /\ scan_before' = <<>>
  /\ UNCHANGED <<test_running, current_process, widgets, logs, after_queue,
                 scans, summary, handler, stop_error, nruns, nstops, workers,
                 proc, history, export_doc>>

\* -------------------------------------------------------------- the system
\* The worker steps that do not depend on the child's output.
WorkerControl(r) ==
  \/ WStart(r) \/ WChdir(r) \/ WLogRunning(r) \/ WPopen(r) \/ WSetCurrent(r)
  \/ WReadEOF(r) \/ WWait(r) \/ WClearCurrent(r)
  \/ WAutoReport(r) \/ WLogReport(r) \/ WSuccess(r) \/ WExcept(r)
  \/ WFinally(r)

\* The first run_tests call; the first stop_tests call.
RunTestsOnce == nruns = 0 /\ RunTests
StopTestsOnce == nstops = 0 /\ StopTestsCheck

\* Run control: one run, with stop_tests calls at any point during it and
\* after it, and the auto-report checkbox flipped at any time; children that
\* print nothing.
Next ==
  \/ RunTestsOnce
  \/ StopTestsCheck
  \/ StopTestsTerminate
  \/ StopTestsKill
  \/ AfterCallback
  \/ ToggleAutoReport
  \/ \E r \in Runs : WorkerControl(r)
  \/ \E r \in Runs, c \in Cmds : ProcExit(r, c)

Spec == Init /\ [][Next]_vars

\* Overlap: up to MaxRuns runs and one stop_tests call, at any point; the
\* children of the first run exit, those of a later run are still running
\* when the observation ends.
NextOverlap ==
  \/ RunTests
  \/ StopTestsOnce
  \/ StopTestsTerminate
  \/ StopTestsKill
  \/ AfterCallback
  \/ \E r \in Runs : WorkerControl(r)
  \/ \E c \in Cmds : ProcExit(1, c)

SpecOverlap == Init /\ [][NextOverlap]_vars

\* Output streaming: the first run, with children that print, and one
\* stop_tests call at any point.
NextRun ==
  \/ RunTestsOnce
  \/ StopTestsOnce
  \/ StopTestsTerminate
  \/ StopTestsKill
  \/ AfterCallback
  \/ \E r \in Runs : WorkerControl(r) \/ WReadLine(r) \/ WAfterLine(r)
  \/ \E r \in Runs, c \in Cmds : ProcEmit(r, c) \/ ProcExit(r, c)

SpecRun == Init /\ [][NextRun]_vars

\* One step of the worker thread of run r.
Worker(r) == WorkerControl(r) \/ WReadLine(r) \/ WAfterLine(r)

\* Streaming without stop_tests calls: the first run, left to finish, with
\* children that print.  Fair scheduling: a worker thread that can take its
\* next step takes it, the main loop runs its pending callback, and every
\* child exits in the end.
NextStream ==
  \/ RunTestsOnce
  \/ AfterCallback
  \/ \E r \in Runs : Worker(r)
  \/ \E r \in Runs, c \in Cmds : ProcEmit(r, c) \/ ProcExit(r, c)

FairStream ==
  /\ Init /\ [][NextStream]_vars
  /\ \A r \in Runs : WF_vars(Worker(r))
  /\ WF_vars(AfterCallback)
  /\ \A r \in Runs, c \in Cmds : WF_vars(ProcExit(r, c))

\* Plans: one run that is left to finish, with any selections made in the
\* comboboxes and the checkbox before and during it; children print nothing.
NextPlan ==
  \/ SelectTestType
  \/ SelectTestbench
  \/ ToggleAutoReport
  \/ RunTestsOnce
  \/ AfterCallback
  \/ \E r \in Runs : WorkerControl(r) \/ WTestbench(r)
  \/ \E r \in Runs, c \in Cmds : ProcExit(r, c)

SpecPlan == Init /\ [][NextPlan]_vars

\* The other handlers of the main loop that wait for a command or change
\* where commands are run.
OtherHandler ==
  \/ GenerateReport \/ GenerateReportMake
  \/ InstallTools \/ InstallToolsRun
  \/ CheckEnvironment \/ CheckEnvironmentRun
  \/ BrowseProjectPath

\* A change of the results directory made by another process.
FsChange ==
  \/ FsMkdir
  \/ \E d \in Categories : FsWrite(d) \/ FsRemove(d)
  \/ FsRemoveResults

\* Scans: no run; the results directory changes at any time, also while it is
\* being scanned and while a handler waits for its command: its directories
\* come and go, files are written and removed.  It is scanned by stop_tests
\* (through _test_completed) and by clear_results.
NextScan ==
  \/ FsChange
  \/ StopTestsOnce
  \/ ClearResults
  \/ ClearResultsMake
  \/ UpdateResultsStep
  \/ OtherHandler

SpecScan == InitResults /\ [][NextScan]_vars

\* Exports: as SpecScan, with export_results in the place of clear_results.
NextExport ==
  \/ FsChange
  \/ StopTestsOnce
  \/ ExportResults
  \/ ExportResultsStep
  \/ UpdateResultsStep
  \/ OtherHandler

SpecExport == InitResults /\ [][NextExport]_vars

\* ------------------------------------------------------------- properties
Live(p) == p.st \in {"running", "exited"}
Launched(p) == p.st \notin {"none", "failed"}
WorkerActive(r) == pc[r] \notin {"unstarted", "done"}

\* C1: within one run the commands execute strictly one after the other: when
\* the report command has been launched, the build command's process has
\* closed its output, has been waited on (its returncode is set) and the
\* worker has gone past the returncode test of that command.
C1_Sequential ==
  \A r \in Runs :
    (Launched(proc[r][1]) /\ Launched(proc[r][2])) =>
      /\ proc[r][1].st = "reaped"
      /\ proc[r][1].returncode # NoCode
      /\ cur[r] = 2

\* C1 witness: the report command runs after the build command was reaped.
C1_Witness ==
  \E r \in Runs : proc[r][2].st = "running" /\ proc[r][1].st = "reaped"

\* C2: fail-fast: once a command of a run has exited with a non-zero code, no
\* later command of the run is launched, the success message is not logged,
\* and the run ends with the error message.
C2_FailFast ==
  \A r \in Runs :
    /\ (Launched(proc[r][1]) /\ proc[r][1].status \notin {NoCode, <<0>>}) =>
         /\ ~Launched(proc[r][2])
         /\ outcome[r] # "success"
         /\ (pc[r] \in {"finally", "done"} => outcome[r] = "error")
    /\ (Launched(proc[r][2]) /\ proc[r][2].status \notin {NoCode, <<0>>}) =>
         /\ outcome[r] # "success"
         /\ (pc[r] \in {"finally", "done"} => outcome[r] = "error")

\* C2 witness: a finished run whose build command exited with a non-zero code
\* without having been signalled.
C2_Witness ==
  \E r \in Runs :
    /\ pc[r] = "done"
    /\ proc[r][1].status = <<2>>
    /\ proc[r][1].sigs = 0
    /\ outcome[r] = "error"

\* C3 (as claimed): once stop_tests was called while a run was going, no
\* command of that run is launched any more.
C3_NoLaunchAfterCancel == \A r \in Runs, c \in Cmds : ~proc[r][c].late

\* C4 (as claimed): a run during which stop_tests was called ends as
\* cancelled: it is never reported as a success, and never as an error of
\* the command that stop_tests terminated.
C4_CancelledOutcome ==
  \A r \in Runs :
    cancel_req[r] =>
      /\ outcome[r] # "success"
      /\ (outcome[r] = "error" => proc[r][cur[r]].sigs = 0)

\* C5 (as claimed): at most one worker executes a plan and at most one child
\* process launched by a run is alive, whatever run/stop requests were made.
C5_SingleActiveRun ==
  /\ Cardinality({r \in Runs : WorkerActive(r)}) <= 1
  /\ Cardinality({rc \in Runs \X Cmds : proc[rc[1]][rc[2]].st = "running"}) <= 1

\* C6 (as claimed): the terminal handling of a run (_test_completed with its
\* update_results) happens once for the run, not more.
C6_CompletedOnce == \A r \in Runs : completed[r] <= 1

\* C7 (as claimed): whenever the state reads as not running (between two
\* handlers: test_running false, Run enabled, Stop disabled), no worker is
\* executing a plan and no child process of a run is alive.
C7_NotRunningMeansIdle ==
  (MainIdle /\ ~test_running) =>
    /\ run_button = "normal" /\ stop_button = "disabled"
    /\ \A r \in Runs : ~WorkerActive(r)
    /\ \A r \in Runs, c \in Cmds : ~Live(proc[r][c])

\* A step in which a stop_tests call has done all of its own work: it
\* raises, or it has made its call of _test_completed, of which only the
\* directory reads of update_results may be left.
StopTestsReturns ==
  \/ MainIdle /\ nstops' = nstops + 1 /\ main_pc' # "stop_terminate"
  \/ /\ main_pc \in {"stop_terminate", "stop_kill"}
     /\ main_pc' \notin {"stop_terminate", "stop_kill"}

\* C8 (as claimed): stop_tests, interleaved in any way with the worker's
\* steps, completes without error and leaves the running flag and the
\* process handle consistent (when it returns, a handle is held only if the
\* flag says running).
C8_StopSafe ==
  [][StopTestsReturns =>
       /\ ~stop_error'
       /\ (current_process' # NoProcess => test_running')]_vars

\* C9 (as claimed): a stop_tests call made while not running (none in
\* progress, or a second call for the same run) is a no-op: it changes no run
\* state, sends no signal, logs nothing and triggers no rescan.
C9_StopNoOpWhenIdle ==
  [][(StopTestsReturns /\ ~test_running) =>
       /\ test_running' = test_running
       /\ scans' = scans
       /\ completed' = completed
       /\ proc' = proc
       /\ system_log' = system_log]_vars

\* The output lines of command c of run r that log_message has received.
Delivered(r, c) ==
  SelectSeq(system_log[r], LAMBDA m : m.kind = "line" /\ m.cmd = c)

\* C10: the output lines of one command reach log_message in the order the
\* process wrote them: of two delivered lines the one written first comes
\* first, and each carries the stripped text of the line at its position.
C10_LinesInOrder ==
  \A r \in Runs, c \in Cmds :
    LET d == Delivered(r, c) IN
      /\ \A i, j \in 1..Len(d) : i < j => d[i].idx < d[j].idx
      /\ \A i \in 1..Len(d) :
           /\ d[i].idx \in 1..Len(proc[r][c].out)
           /\ d[i].text = Strip(proc[r][c].out[d[i].idx])

\* C10 witness: two lines of one command have been delivered.
C10_Witness == \E r \in Runs, c \in Cmds : Len(Delivered(r, c)) >= 2

\* The output lines of command c of run r that wait in the timer queue.
Queued(r, c) ==
  SelectSeq(after_queue,
            LAMBDA cb : cb.kind = "log" /\ cb.run = r /\ cb.msg.kind = "line"
                        /\ cb.msg.cmd = c)

\* How often line i of command c of run r has been handed on for log_message
\* (delivered, or queued for delivery).
Forwards(r, c, i) ==
  Len(SelectSeq(Delivered(r, c), LAMBDA m : m.idx = i))
    + Len(SelectSeq(Queued(r, c), LAMBDA cb : cb.msg.idx = i))

\* The worker of run r is no longer in the read loop of its command c.
LeftReadLoop(r, c) ==
  /\ Launched(proc[r][c])
  /\ (cur[r] # c \/ pc[r] \notin {"set_cp", "read", "after"})

\* C11 (as claimed): no output line is lost: no line is forwarded twice, and
\* once the child has closed its output and the worker has left the read
\* loop, every line the child wrote has been forwarded exactly once.
C11_NoLineLost ==
  \A r \in Runs, c \in Cmds :
    \A i \in 1..Len(proc[r][c].out) :
      /\ Forwards(r, c, i) <= 1
      /\ (LeftReadLoop(r, c) /\ proc[r][c].st \in {"exited", "reaped"}) =>
           Forwards(r, c, i) = 1

\* The commands run r has launched so far, in launch order.
LaunchedCommands(r) ==
  (IF Launched(proc[r][1]) THEN <<proc[r][1].cmd>> ELSE <<>>)
    \o (IF Launched(proc[r][2]) THEN <<proc[r][2].cmd>> ELSE <<>>)

\* The build target the claim gives for each of the seven test modes.
ClaimedTarget(tt, tb) ==
  CASE tt = "All Tests" -> <<"all">>
    [] tt = "Simulation Only" -> <<"sim">>
    [] tt = "Synthesis Only" -> <<"syn">>
    [] tt = "Coverage Only" -> <<"cov">>
    [] tt = "Parallel Build" -> <<"parallel-all">>
    [] tt = "Fast Build" -> <<"fast-build">>
    [] tt = "Individual Testbench" -> <<"sim-", tb[1]>>

\* The worker of run r has read one of the seven test modes (with one of the
\* six testbenches, when the mode asks for one).
ReadValidMode(r) ==
  /\ seen[r].test_type # <<>>
  /\ seen[r].test_type[1] \in TestTypes
  /\ seen[r].test_type[1] = "Individual Testbench" =>
       (seen[r].testbench # <<>> /\ seen[r].testbench[1] \in Testbenches)

\* C12: a run that read a valid test mode and ended with the success message
\* has launched exactly: make with the mode's build target, followed by the
\* report command if and only if the auto-report value it read was true.
\* (The launched commands are a function of the values read.)
C12_PlanOfMode ==
  \A r \in Runs :
    (ReadValidMode(r) /\ outcome[r] = "success") =>
      LaunchedCommands(r) =
        <<<<"make", ClaimedTarget(seen[r].test_type[1], seen[r].testbench)>>>>
          \o (IF seen[r].auto_report = <<TRUE>>
                THEN <<<<"make", <<"html-report">>>>>> ELSE <<>>)

\* C12 witness: a successful run of a single testbench other than the
\* default one, with the report.
C12_Witness ==
  \E r \in Runs :
    /\ outcome[r] = "success"
    /\ seen[r].test_type = <<"Individual Testbench">>
    /\ seen[r].testbench = <<"tb_top_module">>
    /\ seen[r].auto_report = <<TRUE>>
    /\ Len(LaunchedCommands(r)) = 2

\* C13 (as claimed): in Individual Testbench mode a testbench name that is
\* empty or not one of the six known ones is rejected before any launch: the
\* run launches no process.
C13_UnknownTestbenchRejected ==
  \A r \in Runs :
    (/\ seen[r].test_type = <<"Individual Testbench">>
     /\ seen[r].testbench # <<>>
     /\ seen[r].testbench[1] \notin Testbenches) =>
      LaunchedCommands(r) = <<>>

\* C14 (as claimed): whatever the test-type and auto-report values, a run
\* does not end with the success message without having launched a command.
C14_NonEmptyPlan ==
  \A r \in Runs : outcome[r] = "success" => LaunchedCommands(r) # <<>>

\* The count a summary label shows ("Not Run" read as no artifacts).
ShownCount(label) == IF label = NotRun THEN 0 ELSE label[1]

\* The simulation results the tree shows: the rows of its Simulations node.
ShownSimResults(s) == IF s.tree = <<>> THEN <<>> ELSE s.tree[1].rows

\* The matching artifact files of a category directory that are on disk.
Present(d, suffix) ==
  IF fs.root /\ fs[d].exists THEN Glob(fs[d].files, suffix) ELSE <<>>

\* C15 (as claimed): after a scan (and until the directory changes again)
\* each category's count is the number of matching files on disk, 0 when its
\* directory or the results directory is missing, and the simulation results
\* are exactly those of the logs on disk: nothing of an earlier scan remains.
C15_ScanShowsDisk ==
  scan_state \in {"scanned", "rescanned"} =>
    /\ ShownCount(summary.sim_status) = Len(Present("sim", ".log"))
    /\ ShownCount(summary.syn_status) = Len(Present("syn", "_synth.v"))
    /\ ShownCount(summary.cov_status) = Len(Present("cov", ".log"))
    /\ ShownSimResults(summary) = SimEntries(Present("sim", ".log"))
    /\ Len(summary.tree) <= 1

\* C16: scanning is idempotent: a scan that follows a scan, the results
\* directory unchanged from the beginning of the first to the end of the
\* second, leaves the summary (the three labels and the tree with its
\* name/status rows) as the first of the two left it, whatever the summary
\* showed before.
C16_ScanIdempotent ==
  scan_state = "rescanned" => scan_before = <<summary>>

\* C16 witness: a directory that has changed while the program ran has been
\* scanned twice in a row; it holds two logs, a netlist and a coverage log,
\* and the Results tab shows all of them.
C16_Witness ==
  /\ scan_state = "rescanned"
  /\ changes > 0
  /\ Len(ShownSimResults(summary)) = 2
  /\ Len(Present("syn", "_synth.v")) = 1
  /\ Len(Present("cov", ".log")) = 1
  /\ summary.syn_status = <<1>>
  /\ summary.cov_status = <<1>>

\* C17 (as claimed): the simulation list an export writes is the list of
\* simulation results of the latest scan, entry for entry and in its order,
\* also when the logs on disk have changed since that scan.
C17_ExportIsLatestScan ==
  [][(ExportDump /\ scan_state # "none") =>
       export_doc'[1].simulation = ShownSimResults(summary)]_vars

\* The launch of command c of run r failed (Popen raised).
LaunchFailed(r, c) == proc[r][c].st = "failed"

\* The text widget (console or system log) shows the error message of command
\* c of run r.
Shows(text, r, c) ==
  \E k \in 1..Len(text[r]) : text[r][k].kind = "error" /\ text[r][k].cmd = c

\* The error message of command c of run r is on screen, in the console or in
\* the system log.
ErrorLogged(r, c) == Shows(console, r, c) \/ Shows(system_log, r, c)

\* C18 (as claimed): when the launch of a command fails, no later command of
\* the run is launched or attempted, the run does not report success but logs
\* the error as its final message, and once its completion has been handled
\* the controller is idle again (not running, Run enabled, no process held),
\* so that run_tests accepts the next start.
C18_LaunchFailure ==
  \A r \in Runs, c \in Cmds :
    LaunchFailed(r, c) =>
      /\ cur[r] = c
      /\ (c = 1 => proc[r][2].st = "none")
      /\ outcome[r] # "success"
      /\ pc[r] \in {"except", "finally", "done"}
      /\ (pc[r] \in {"finally", "done"} =>
            outcome[r] = "error" /\ ErrorLogged(r, c))
      /\ ((completed[r] >= 1 /\ nruns = r) =>
            /\ ~test_running
            /\ run_button = "normal" /\ stop_button = "disabled"
            /\ current_process = NoProcess)

\* The worker of run r has left _run_command for its command c, which it had
\* launched (by returning from it or by an exception).
LeftCommand(r, c) ==
  /\ Launched(proc[r][c])
  /\ \/ cur[r] # c
     \/ pc[r] \in {"auto", "log_report", "success", "except", "finally", "done"}

\* C19 (as claimed): on every way out of _run_command the child has been
\* waited on (it is reaped and its returncode is set) and current_process no
\* longer refers to it.
C19_ReapedOnEveryExit ==
  \A r \in Runs, c \in Cmds :
    LeftCommand(r, c) =>
      /\ proc[r][c].st = "reaped"
      /\ proc[r][c].returncode # NoCode
      /\ current_process # <<r, c>>

\* Run r has reached its end: the worker has finished, no completion callback
\* of the run is pending, and test_running is false.
CompletionPending(r) ==
  \E k \in 1..Len(after_queue) :
    after_queue[k].kind = "completed" /\ after_queue[k].run = r

Terminal(r) ==
  /\ pc[r] = "done"
  /\ ~CompletionPending(r)
  /\ completed[r] >= 1
  /\ ~test_running

\* C20: under fair scheduling, with children that exit, every started run
\* reaches its end: the read loop and the wait are left, _test_completed is
\* delivered and test_running is false, so that run_tests accepts a start.
C20_RunTerminates ==
  \A r \in Runs : (pc[r] = "start") ~> Terminal(r)

\* C20 witness: a run has ended whose build command printed two lines, both
\* read by the worker, and whose two commands have been waited on.
C20_Witness ==
  \E r \in Runs :
    /\ Terminal(r)
    /\ Len(proc[r][1].out) = 2
    /\ proc[r][1].st = "reaped"
    /\ proc[r][2].st = "reaped"
    /\ outcome[r] = "success"


\* The worker of run r leaves the place named at in this step.
Leaves(r, at) == pc[r] = at /\ pc'[r] # at

\* The worker of run r settles on its build command in this step (or on
\* none, when no branch of the if/elif chain matches).
SettlesCommand(r) ==
  pc[r] \in {"chdir", "testbench"} /\ pc'[r] \in {"log_running", "auto"}

\* C21: the commands a run launches are those of the test type, testbench and
\* auto-report values in effect when run_tests started it, whatever is selected
\* while the run is in progress: the build command the worker settles on is
\* the one of the test type and testbench at the start, and the worker goes on
\* to the report command exactly when auto-report was checked at the start.
C21_PlanFixedAtStart ==
  [][\A r \in Runs :
       /\ SettlesCommand(r) =>
            command'[r] = BuildCommand(chosen[r].test_type[1],
                                       chosen[r].testbench[1])
       /\ Leaves(r, "auto") =>
            ((pc'[r] = "log_report") <=> chosen[r].auto_report[1])]_vars

\* C22: the console shows a run's events in causal order: an output line of
\* a command is never appended after the "Running: ..." header of a later
\* command of the run, nor after the run's final message ("Tests completed
\* successfully!" or "Error running tests: ...").
C22_CausalOrder ==
  \A r \in Runs :
    \A i, j \in 1..Len(console[r]) :
      (i < j /\ console[r][j].kind = "line") =>
        /\ console[r][i].kind \notin {"success", "error"}
        /\ ~(console[r][i].kind = "running"
               /\ console[r][i].cmd > console[r][j].cmd)

====
